---------------------------- MODULE Spec2Model ----------------------------
(***************************************************************************)
(* Movie Lobby REST API: startup sequence (server.ts, DBConfig.ts), the    *)
(* admin gate (AuthMiddleware.authenticateAdmin), the five handlers of     *)
(* MovieController and the Movie schema.                                   *)
(*                                                                         *)
(* The document store is the function `store` from _id strings to          *)
(* documents.  Mongoose's deterministic outcomes are modelled: casting of  *)
(* ids and values, document validation on save(), update documents with    *)
(* operators, null results.  The driver is taken to stay reachable once    *)
(* the initial connection succeeded.                                       *)
(*                                                                         *)
(* Text is a sequence of one-character strings.  JSON values are tagged    *)
(* records so that values of different kinds can be compared.              *)
(***************************************************************************)
EXTENDS Integers, Sequences, FiniteSets, TLC

VARIABLES pc, dbConnected, listening, attempts, store, nextId, resp

vars == <<pc, dbConnected, listening, attempts, store, nextId, resp>>

-----------------------------------------------------------------------------
(* Bounds *)

\* number of documents ever created (ObjectIds issued)
MaxMovies == 2

\* largest rating an $inc may produce in a stored document
MaxStoredRating == 12

-----------------------------------------------------------------------------
(* JSON values *)

JUndef == [k |-> "undef", n |-> 0, s |-> <<>>]
JNull == [k |-> "null", n |-> 0, s |-> <<>>]
JNum(n) == [k |-> "num", n |-> n, s |-> <<>>]
JStr(s) == [k |-> "str", n |-> 0, s |-> s]

\* result of a failed cast (Mongoose CastError)
CastError == [k |-> "casterror", n |-> 0, s |-> <<>>]

DigitChars == <<"0", "1", "2", "3", "4", "5", "6", "7", "8", "9">>

HexChars == {"0", "1", "2", "3", "4", "5", "6", "7", "8", "9",
             "a", "b", "c", "d", "e", "f", "A", "B", "C", "D", "E", "F"}

DigitVal(c) == CHOOSE d \in 0..9 : DigitChars[d + 1] = c

IsDigits(s) == \A i \in 1..Len(s) : \E d \in 1..10 : DigitChars[d] = s[i]

RECURSIVE ParseDigits(_)
ParseDigits(s) ==
  IF Len(s) = 0 THEN 0
  ELSE 10 * ParseDigits(SubSeq(s, 1, Len(s) - 1)) + DigitVal(s[Len(s)])

RECURSIVE NatToStr(_)
NatToStr(n) ==
  IF n < 10 THEN <<DigitChars[n + 1]>>
  ELSE NatToStr(n \div 10) \o <<DigitChars[(n % 10) + 1]>>

\* SchemaString cast: strings stay, numbers are printed, null/undefined stay
CastString(v) ==
  CASE v.k = "str" -> v
    [] v.k = "num" -> JStr(IF v.n < 0 THEN <<"-">> \o NatToStr(-v.n) ELSE NatToStr(v.n))
    [] OTHER -> v

\* SchemaNumber cast: numbers stay, "" becomes null, digit strings are parsed,
\* any other text is a CastError
CastNumber(v) ==
  CASE v.k = "num" -> v
    [] v.k = "str" ->
         IF Len(v.s) = 0 THEN JNull
         ELSE IF IsDigits(v.s) THEN JNum(ParseDigits(v.s))
         ELSE CastError
    [] OTHER -> v

-----------------------------------------------------------------------------
(* Movie schema *)

RatingMin == 0
RatingMax == 10

\* `required: true` on a String path: null, undefined and "" are rejected
RequiredString(v) == v.k = "str" /\ Len(v.s) > 0

RatingValid_NoMax(v) == v.k = "num" /\ v.n >= RatingMin

\* `required: true, min: 0, max: 10` on the Number path
RatingValid(v) == v.k = "num" /\ v.n >= RatingMin /\ v.n <= RatingMax

\* new Movie({title, genre, rating, streamingLink}): cast by schema type
CastDoc(b) ==
  [title |-> CastString(b.title), genre |-> CastString(b.genre),
   rating |-> CastNumber(b.rating), streamingLink |-> CastString(b.streamingLink)]

\* document validation run by save()
ValidateMovie(d) ==
  /\ RequiredString(d.title)
  /\ RequiredString(d.genre)
  /\ RatingValid(d.rating)
  /\ RequiredString(d.streamingLink)

-----------------------------------------------------------------------------
(* ObjectIds *)

\* the 24-hex-character text of the n-th ObjectId issued by the store
IdStr(n) == [i \in 1..24 |-> IF i = 24 THEN DigitChars[n + 1] ELSE "0"]

\* cast of req.params.id to ObjectId (ids of 12 characters are not among the inputs)
IsObjectIdString(s) == Len(s) = 24 /\ \A i \in 1..24 : s[i] \in HexChars

-----------------------------------------------------------------------------
(* Auth gate *)

\* the tokens that exist in the model: what jsonwebtoken finds in each
TokenTable ==
  [tokAdmin     |-> [wellFormed |-> TRUE,  sigOk |-> TRUE,  expired |-> FALSE, role |-> "admin"],
   tokUser      |-> [wellFormed |-> TRUE,  sigOk |-> TRUE,  expired |-> FALSE, role |-> "user"],
   tokAdminCaps |-> [wellFormed |-> TRUE,  sigOk |-> TRUE,  expired |-> FALSE, role |-> "Admin"],
   tokExpired   |-> [wellFormed |-> TRUE,  sigOk |-> TRUE,  expired |-> TRUE,  role |-> "admin"],
   tokForged    |-> [wellFormed |-> TRUE,  sigOk |-> FALSE, expired |-> FALSE, role |-> "admin"],
   garbage      |-> [wellFormed |-> FALSE, sigOk |-> FALSE, expired |-> FALSE, role |-> "admin"]]

Tokens == DOMAIN TokenTable

\* jwt.verify(token, secret): throws unless the token parses, is signed with
\* the secret and has not expired; otherwise returns the payload
JwtVerify_IgnoreExpiry(token) ==
  IF token \in Tokens /\ TokenTable[token].wellFormed /\ TokenTable[token].sigOk
  THEN [ok |-> TRUE, role |-> TokenTable[token].role]
  ELSE [ok |-> FALSE, role |-> ""]

JwtVerify(token) ==
  IF /\ token \in Tokens
     /\ TokenTable[token].wellFormed
     /\ TokenTable[token].sigOk
     /\ ~TokenTable[token].expired
  THEN [ok |-> TRUE, role |-> TokenTable[token].role]
  ELSE [ok |-> FALSE, role |-> ""]

\* String.prototype.split(' ') over a header given as atoms: each atom is
\* either one space or a run of non-space text
RECURSIVE SplitSpace(_)
SplitSpace(h) ==
  IF Len(h) = 0 THEN <<"">>
  ELSE LET front == SplitSpace(SubSeq(h, 1, Len(h) - 1))
           last == h[Len(h)]
       IN IF last = " " THEN Append(front, "")
          ELSE [front EXCEPT ![Len(front)] = last]

\* req.headers.authorization?.split(' ')[1]; "" stands for undefined and ''
\* (both falsy); <<>> is the absent header
ExtractToken(h) ==
  IF Len(h) = 0 THEN ""
  ELSE LET parts == SplitSpace(h)
       IN IF Len(parts) >= 2 THEN parts[2] ELSE ""

GateNext == 0

AuthenticateAdmin_MissingOk(h) ==
  LET token == ExtractToken(h)
  IN IF token = "" THEN GateNext
     ELSE LET decoded == JwtVerify(token)
          IN IF ~decoded.ok THEN 401
             ELSE IF decoded.role # "admin" THEN 403
             ELSE GateNext

\* AuthMiddleware.authenticateAdmin: 401, 403 or GateNext (next() is called)
AuthenticateAdmin(h) ==
  LET token == ExtractToken(h)
  IN IF token = "" THEN 401
     ELSE LET decoded == JwtVerify(token)
          IN IF ~decoded.ok THEN 401
             ELSE IF decoded.role # "admin" THEN 403
             ELSE GateNext

-----------------------------------------------------------------------------
(* Movie store and handlers *)

\* the result of one handler: HTTP status, the store afterwards, and the
\* documents in the JSON response (each with its _id)
Result(status, st, out) == [status |-> status, store |-> st, out |-> out]

Docs(st) == {[id |-> i, doc |-> st[i]] : i \in DOMAIN st}

\* MovieController.listMovies: Movie.find()
ListMovies(st) == Result(200, st, Docs(st))

\* i-flag comparison of one character
Lower(c) ==
  CASE c = "D" -> "d"
    [] c = "E" -> "e"
    [] c = "F" -> "f"
    [] c = "N" -> "n"
    [] c = "S" -> "s"
    [] c = "T" -> "t"
    [] c = "U" -> "u"
    [] OTHER -> c

\* the pattern compiles: "(" opens a group that the texts used here never close
RegexCompiles(pat) == \A i \in 1..Len(pat) : pat[i] # "("

\* unanchored match of pat in text with option i: "." matches any character,
\* every other character matches itself up to case
RegexMatches(pat, text) ==
  \E off \in 0..(Len(text) - Len(pat)) :
    \A i \in 1..Len(pat) :
      \/ pat[i] = "."
      \/ Lower(pat[i]) = Lower(text[off + i])

\* { field: { $regex: pat, $options: 'i' } } matches string values only
FieldMatches(pat, v) == v.k = "str" /\ RegexMatches(pat, v.s)

\* MovieController.searchMovies: $or of the two $regex conditions; a pattern
\* that does not compile makes the query fail
SearchMovies(st, q) ==
  IF ~RegexCompiles(q) THEN Result(500, st, {})
  ELSE Result(200, st,
         {r \in Docs(st) : FieldMatches(q, r.doc.title) \/ FieldMatches(q, r.doc.genre)})

\* MovieController.addMovie: new Movie({title, genre, rating, streamingLink}),
\* save() validates and inserts under a fresh ObjectId
AddMovie(st, nid, b) ==
  LET d == CastDoc(b)
      id == IdStr(nid)
  IN IF ~ValidateMovie(d) THEN Result(400, st, {})
     ELSE Result(201, [i \in DOMAIN st \cup {id} |-> IF i = id THEN d ELSE st[i]],
                 {[id |-> id, doc |-> d]})

\* castUpdate: top-level schema paths become $set and are cast by schema
\* type; $inc on the Number path is cast as a number
CastUpdate(b) ==
  [title |-> CastString(b.title), genre |-> CastString(b.genre),
   rating |-> CastNumber(b.rating), streamingLink |-> CastString(b.streamingLink),
   inc |-> CastNumber(b.inc)]

UpdateCastFails(c) ==
  \/ c.rating.k = "casterror"
  \/ c.inc.k = "casterror"
  \/ c.inc.k = "null"
  \/ c.inc.k # "undef" /\ c.rating.k # "undef"

\* the document after $set of the given paths and $inc of rating; update
\* validators are off (runValidators is not passed)
ApplyUpdate(d, c) ==
  [title |-> IF c.title.k = "undef" THEN d.title ELSE c.title,
   genre |-> IF c.genre.k = "undef" THEN d.genre ELSE c.genre,
   streamingLink |-> IF c.streamingLink.k = "undef" THEN d.streamingLink ELSE c.streamingLink,
   rating |-> IF c.inc.k = "num"
              THEN (IF d.rating.k = "num" THEN JNum(d.rating.n + c.inc.n) ELSE c.inc)
              ELSE IF c.rating.k = "undef" THEN d.rating ELSE c.rating]

\* MovieController.updateMovie: Movie.findByIdAndUpdate(id, body, {new: true})
UpdateMovie(st, id, b) ==
  LET c == CastUpdate(b)
  IN IF ~IsObjectIdString(id) \/ UpdateCastFails(c) THEN Result(400, st, {})
     ELSE IF id \notin DOMAIN st THEN Result(404, st, {})
     ELSE IF c.inc.k = "num" /\ st[id].rating.k = "null" THEN Result(400, st, {})
     ELSE LET d == ApplyUpdate(st[id], c)
          IN Result(200, [st EXCEPT ![id] = d], {[id |-> id, doc |-> d]})

DeleteMovie_KeepsRecord(st, id) ==
  IF ~IsObjectIdString(id) THEN Result(500, st, {})
  ELSE IF id \notin DOMAIN st THEN Result(404, st, {})
  ELSE Result(200, st, {})

\* MovieController.deleteMovie: Movie.findByIdAndDelete(id)
DeleteMovie(st, id) ==
  IF ~IsObjectIdString(id) THEN Result(500, st, {})
  ELSE IF id \notin DOMAIN st THEN Result(404, st, {})
  ELSE Result(200, [i \in DOMAIN st \ {id} |-> st[i]], {})

-----------------------------------------------------------------------------
(* Requests *)

Dune == <<"D", "u", "n", "e">>
ET == <<"E", ".", "T", ".">>
SciFi == <<"S", "c", "i", "-", "F", "i">>
Link == <<"h", "t", "t", "p", ":", "/", "/", "x">>

Body(t, g, r, l, inc) == [title |-> t, genre |-> g, rating |-> r, streamingLink |-> l, inc |-> inc]

NoBody == Body(JUndef, JUndef, JUndef, JUndef, JUndef)

\* req.body of POST /movies
AddBodies ==
  { Body(JStr(Dune), JStr(SciFi), JNum(9), JStr(Link), JUndef),
    Body(JStr(Dune), JStr(SciFi), JNum(11), JStr(Link), JUndef),
    Body(JStr(Dune), JStr(SciFi), JNum(-1), JStr(Link), JUndef),
    Body(JStr(Dune), JStr(SciFi), JStr(<<"1", "1">>), JStr(Link), JUndef),
    Body(JStr(Dune), JStr(SciFi), JStr(<<"a", "b", "c">>), JStr(Link), JUndef),
    Body(JNum(7), JStr(SciFi), JUndef, JStr(Link), JUndef),
    Body(JUndef, JStr(SciFi), JNum(9), JStr(Link), JUndef),
    Body(JStr(Dune), JStr(<<>>), JNum(9), JStr(Link), JUndef),
    Body(JStr(Dune), JStr(SciFi), JNum(9), JNull, JUndef),
    NoBody }

\* req.body of PUT /movies/:id; inc is the value of {"$inc": {"rating": _}}
UpdateBodies ==
  { NoBody,
    Body(JStr(ET), JUndef, JUndef, JUndef, JUndef),
    Body(JUndef, JUndef, JNum(11), JUndef, JUndef),
    Body(JUndef, JUndef, JStr(<<"a", "b", "c">>), JUndef, JUndef),
    Body(JUndef, JUndef, JUndef, JUndef, JNum(2)) }

\* req.params.id: every id the store may have issued, a well-formed id it
\* never issues, and two texts that are not ObjectIds
NeverIssued == IdStr(9)

RequestIds ==
  {IdStr(n) : n \in 0..(MaxMovies - 1)}
    \cup {NeverIssued, <<"a", "b", "c">>, [NeverIssued EXCEPT ![1] = "z"]}

\* req.query.q
Queries ==
  { <<>>, <<"d">>, <<"U", "N">>, <<".">>, <<"u", ".">>, <<"-", "f">>,
    <<"x">>, <<"(">> }

\* the Authorization header as atoms; <<>> is no header
Headers ==
  { <<>>, <<"Bearer">>,
    <<"Bearer", " ", " ", "tokAdmin">>,
    <<"Basic", " ", "tokAdmin">> }
    \cup {<<"Bearer", " ", t>> : t \in Tokens}

Response(op, h, ran, id, b, q, status, out) ==
  [op |-> op, header |-> h, handlerRan |-> ran, id |-> id, body |-> b, q |-> q,
   status |-> status, out |-> out]

\* a request the gate turned away: the handler, and with it the id and the
\* body, is never read
Rejected(op, h, status) == Response(op, h, FALSE, <<>>, NoBody, <<>>, status, {})

-----------------------------------------------------------------------------
(* Startup: server.ts and DBConfig.connect *)

Init ==
  /\ pc = "boot"
  /\ dbConnected = FALSE
  /\ listening = FALSE
  /\ attempts = 0
  /\ store = [i \in {} |-> NoBody]
  /\ nextId = 0
  /\ resp = Response("none", <<>>, FALSE, <<>>, NoBody, <<>>, 0, {})

\* DBConfig.connect() is called: mongoose.connect is awaited
Connect ==
  /\ pc = "boot"
  /\ pc' = "connecting"
  /\ attempts' = attempts + 1
  /\ UNCHANGED <<dbConnected, listening, store, nextId, resp>>

\* mongoose.connect resolves: connect() resolves, the then-callback is due
ConnectResolved ==
  /\ pc = "connecting"
  /\ dbConnected' = TRUE
  /\ pc' = "connected"
  /\ UNCHANGED <<listening, attempts, store, nextId, resp>>

ConnectRejected_NoExit ==
  /\ pc = "connecting"
  /\ pc' = "connected"
  /\ UNCHANGED <<dbConnected, listening, attempts, store, nextId, resp>>

\* mongoose.connect rejects: the catch block calls process.exit(1)
ConnectRejected ==
  /\ pc = "connecting"
  /\ pc' = "exited"
  /\ UNCHANGED <<dbConnected, listening, attempts, store, nextId, resp>>

\* the then-callback: app.listen(PORT)
Listen ==
  /\ pc = "connected"
  /\ listening' = TRUE
  /\ pc' = "running"
  /\ UNCHANGED <<dbConnected, attempts, store, nextId, resp>>

-----------------------------------------------------------------------------
(* Routes *)

\* GET /movies
ReqList ==
  /\ listening
  /\ LET r == ListMovies(store)
     IN /\ resp' = Response("list", <<>>, TRUE, <<>>, NoBody, <<>>, r.status, r.out)
        /\ store' = r.store
  /\ UNCHANGED <<pc, dbConnected, listening, attempts, nextId>>

\* GET /search?q=
ReqSearch ==
  /\ listening
  /\ \E q \in Queries :
       LET r == SearchMovies(store, q)
       IN /\ resp' = Response("search", <<>>, TRUE, <<>>, NoBody, q, r.status, r.out)
          /\ store' = r.store
  /\ UNCHANGED <<pc, dbConnected, listening, attempts, nextId>>

\* POST /movies: authenticateAdmin, then addMovie
ReqAdd ==
  /\ listening
  /\ \E h \in Headers :
       LET g == AuthenticateAdmin(h)
       IN IF g # GateNext
          THEN /\ resp' = Rejected("add", h, g)
               /\ UNCHANGED <<store, nextId>>
          ELSE \E b \in AddBodies :
                 LET r == AddMovie(store, nextId, b)
                 IN /\ r.status = 201 => nextId < MaxMovies
                    /\ resp' = Response("add", h, TRUE, <<>>, b, <<>>, r.status, r.out)
                    /\ store' = r.store
                    /\ nextId' = IF r.status = 201 THEN nextId + 1 ELSE nextId
  /\ UNCHANGED <<pc, dbConnected, listening, attempts>>

\* PUT /movies/:id: authenticateAdmin, then updateMovie
ReqUpdate ==
  /\ listening
  /\ \E h \in Headers :
       LET g == AuthenticateAdmin(h)
       IN IF g # GateNext
          THEN /\ resp' = Rejected("update", h, g)
               /\ UNCHANGED store
          ELSE \E id \in RequestIds, b \in UpdateBodies :
                 LET r == UpdateMovie(store, id, b)
                 IN /\ \A i \in DOMAIN r.store : r.store[i].rating.n <= MaxStoredRating
                    /\ resp' = Response("update", h, TRUE, id, b, <<>>, r.status, r.out)
                    /\ store' = r.store
  /\ UNCHANGED <<pc, dbConnected, listening, attempts, nextId>>

\* DELETE /movies/:id: authenticateAdmin, then deleteMovie
ReqDelete ==
  /\ listening
  /\ \E h \in Headers :
       LET g == AuthenticateAdmin(h)
       IN IF g # GateNext
          THEN /\ resp' = Rejected("delete", h, g)
               /\ UNCHANGED store
          ELSE \E id \in RequestIds :
                 LET r == DeleteMovie(store, id)
                 IN /\ resp' = Response("delete", h, TRUE, id, NoBody, <<>>, r.status, r.out)
                    /\ store' = r.store
  /\ UNCHANGED <<pc, dbConnected, listening, attempts, nextId>>

Next ==
  \/ Connect
  \/ ConnectResolved
  \/ ConnectRejected
  \/ Listen
  \/ ReqList
  \/ ReqSearch
  \/ ReqAdd
  \/ ReqUpdate
  \/ ReqDelete

Spec == Init /\ [][Next]_vars

-----------------------------------------------------------------------------
(* Properties *)

Mutating == {"add", "update", "delete"}

TokenVerifies(t) ==
  TokenTable[t].wellFormed /\ TokenTable[t].sigOk /\ ~TokenTable[t].expired

\* the header has the form "Bearer <token>"
IsBearerForm(h) == Len(h) = 3 /\ h[1] = "Bearer" /\ h[2] = " " /\ h[3] # " "

\* the header is absent or nothing follows the scheme word
HasNoToken(h) == Len(h) <= 1

\* some word of the header is a token that verifies with role admin
CarriesVerifiedAdmin(h) ==
  \E i \in 1..Len(h) :
    h[i] \in Tokens /\ TokenVerifies(h[i]) /\ TokenTable[h[i]].role = "admin"

Issued(id) == \E n \in 0..(nextId - 1) : id = IdStr(n)

\* C1: on a mutating route a request without a token gets 401, one whose
\* bearer token fails verification gets 401, and one whose bearer token
\* verifies with a role other than "admin" gets 403.
C1_GateStatus ==
  resp.op \in Mutating =>
    /\ HasNoToken(resp.header) => resp.status = 401
    /\ IsBearerForm(resp.header) /\ resp.header[3] \in Tokens =>
         /\ ~TokenVerifies(resp.header[3]) => resp.status = 401
         /\ TokenVerifies(resp.header[3]) /\ TokenTable[resp.header[3]].role # "admin"
              => resp.status = 403

C1_Witness ==
  /\ resp.op = "update"
  /\ resp.header = <<"Bearer", " ", "tokAdminCaps">>
  /\ resp.status = 403

\* C2: every stored movie has title, genre, rating and streamingLink present
\* and a rating within [0,10].
C2_StoreValid ==
  \A id \in DOMAIN store :
    /\ store[id].title.k = "str"
    /\ store[id].genre.k = "str"
    /\ store[id].streamingLink.k = "str"
    /\ store[id].rating.k = "num"
    /\ store[id].rating.n >= 0
    /\ store[id].rating.n <= 10

\* C3: an admin-authorised update or delete of an id that names no record
\* answers 404 and leaves the store unchanged, whatever the form of the id.
C3_MissingIdIs404 ==
  [][ resp'.op \in {"update", "delete"} /\ resp'.handlerRan /\ resp'.id \notin DOMAIN store
        => resp'.status = 404 /\ store' = store ]_vars

PayloadInvalid(b) ==
  \/ b.rating.k = "num" /\ (b.rating.n < 0 \/ b.rating.n > 10)
  \/ \E f \in {"title", "genre", "rating", "streamingLink"} : b[f].k = "undef"

\* C4: an admin add whose payload has a rating outside [0,10] or lacks a
\* required field answers 400 and the store holds the same records as before.
C4_InvalidAddRejected ==
  [][ resp'.op = "add" /\ resp'.handlerRan /\ PayloadInvalid(resp'.body)
        => resp'.status = 400 /\ store' = store ]_vars

C4_Witness ==
  /\ resp.op = "add"
  /\ resp.handlerRan
  /\ resp.body.rating = JNum(11)
  /\ resp.status = 400
  /\ DOMAIN store # {}

\* C5: an admin add of a valid movie answers 201 with an id the store never
\* issued before and the record is stored; a list returns exactly the stored
\* records; a record leaves the store only by an admin delete of its id, which
\* answers 200; a deleted id never comes back, and an admin delete of it
\* answers 404.
C5_EndToEnd ==
  [][ /\ resp'.op = "add" /\ resp'.status = 201 =>
           \E r \in resp'.out :
             /\ resp'.out = {r}
             /\ ~Issued(r.id)
             /\ r.id \notin DOMAIN store
             /\ r.id \in DOMAIN store' /\ store'[r.id] = r.doc
      /\ resp'.op = "list" =>
           /\ resp'.status = 200
           /\ \A id \in DOMAIN store' : [id |-> id, doc |-> store'[id]] \in resp'.out
           /\ \A r \in resp'.out : r.id \in DOMAIN store'
      /\ \A id \in DOMAIN store :
           id \notin DOMAIN store' =>
             resp'.op = "delete" /\ resp'.handlerRan /\ resp'.id = id /\ resp'.status = 200
      /\ resp'.op = "delete" /\ resp'.handlerRan /\ resp'.id \in DOMAIN store =>
           resp'.status = 200 /\ resp'.id \notin DOMAIN store'
      /\ \A n \in 0..(nextId - 1) :
           IdStr(n) \notin DOMAIN store =>
             /\ IdStr(n) \notin DOMAIN store'
             /\ resp'.op = "delete" /\ resp'.handlerRan /\ resp'.id = IdStr(n)
                  => resp'.status = 404
    ]_vars

C5_Witness ==
  /\ resp.op = "delete"
  /\ resp.handlerRan
  /\ resp.status = 404
  /\ Issued(resp.id)
  /\ DOMAIN store # {}

\* C6: after an accepted update the record in the store is the one returned,
\* and applying the same body again leaves the store as it is.
C6_UpdateIdempotent ==
  [][ resp'.op = "update" /\ resp'.status = 200 =>
        /\ \A r \in resp'.out : r.id = resp'.id /\ store'[r.id] = r.doc
        /\ UpdateMovie(store', resp'.id, resp'.body).store = store' ]_vars

\* text contains q as a literal substring, compared case-insensitively
ContainsLiteral(text, q) ==
  \E off \in 0..(Len(text) - Len(q)) :
    \A i \in 1..Len(q) : Lower(q[i]) = Lower(text[off + i])

\* C7: a search for X answers with exactly the stored records whose title or
\* genre contains X as a literal substring, compared case-insensitively.
C7_SearchLiteral ==
  resp.op = "search" =>
    /\ resp.status = 200
    /\ resp.out = {r \in {[id |-> i, doc |-> store[i]] : i \in DOMAIN store} :
                     \/ r.doc.title.k = "str" /\ ContainsLiteral(r.doc.title.s, resp.q)
                     \/ r.doc.genre.k = "str" /\ ContainsLiteral(r.doc.genre.s, resp.q)}

\* C8: the listener is started only with the database connected; at most one
\* connection attempt is made; after a failed attempt the process has exited,
\* the listener is not started and nothing further happens.
C8_StartupOrder ==
  [][ /\ listening' => dbConnected'
      /\ attempts' <= 1
      /\ pc' = "exited" => ~listening' /\ ~dbConnected' /\ attempts' = 1
      /\ pc = "exited" => pc' = "exited" /\ ~listening' /\ attempts' = attempts
    ]_vars

C8_Witness == pc = "exited" /\ attempts = 1 /\ ~listening

\* C9: a request the gate answers with 401 or 403 does not run its handler
\* and leaves the store unchanged; every change of the store comes from a
\* mutating request carrying a verified token with role admin.
C9_GateGuardsStore ==
  [][ /\ resp'.op \in Mutating /\ resp'.status \in {401, 403}
           => ~resp'.handlerRan /\ store' = store
      /\ store' # store
           => resp'.op \in Mutating /\ resp'.handlerRan /\ CarriesVerifiedAdmin(resp'.header)
    ]_vars

C9_Witness ==
  /\ resp.op = "delete"
  /\ resp.status = 403
  /\ ~resp.handlerRan
  /\ DOMAIN store # {}

\* C10: a mutating request whose Authorization header is absent or is not of
\* the form "Bearer <token>" answers 401 and its handler does not run.
C10_BearerOnly ==
  resp.op \in Mutating /\ ~IsBearerForm(resp.header)
    => resp.status = 401 /\ ~resp.handlerRan

=============================================================================
